---- MODULE Spec2Model ----
(***************************************************************************)
(* Voice dictation daemon (src/voice-daemon.py): the single-instance      *)
(* startup check, the text injector selection, the Idle/Listening state   *)
(* machine with its worker threads, and the streaming delta computation.  *)
(*                                                                         *)
(* Threads.  The control thread is the Qt main thread: it runs            *)
(* start_listening, stop_listening, the toggle channels and the slots of  *)
(* the queued signals.  Every start_listening spawns a worker thread      *)
(* running _listen_loop.  The recorder calls _on_realtime_update while a  *)
(* worker is blocked in recorder.text().                                  *)
(*                                                                         *)
(* Text is a sequence of characters over Char; " " stands for any         *)
(* whitespace character.                                                  *)
(***************************************************************************)
EXTENDS Naturals, Sequences, FiniteSets

\* ------------------------------------------------------------------ bounds

MaxWorkers == 2
MaxQueue == 2
MaxToggles == 2
MaxLen == 3
MaxUttLen == 1

\* ------------------------------------------------------------------- text

Char == {"a", " "}

StringsUpTo(n) == UNION {[1..k -> Char] : k \in 0..n}

Strings == StringsUpTo(MaxLen)

\* What recorder.text() returns, and the partial hypotheses, in the daemon.
Utterances == StringsUpTo(MaxUttLen)

\* str.startswith
StartsWith(text, prefix) ==
    /\ Len(prefix) <= Len(text)
    /\ SubSeq(text, 1, Len(prefix)) = prefix

\* text[n:]
SliceFrom(text, n) == SubSeq(text, n + 1, Len(text))

RECURSIVE LStrip(_)
\* str.lstrip
LStrip(text) ==
    IF text # <<>> /\ Head(text) = " " THEN LStrip(Tail(text)) ELSE text

RECURSIVE RStrip(_)
\* str.rstrip
RStrip(text) ==
    IF text # <<>> /\ text[Len(text)] = " "
    THEN RStrip(SubSeq(text, 1, Len(text) - 1))
    ELSE text

\* str.strip
Strip(text) == RStrip(LStrip(text))

\* ------------------------------------------------------- injector selection

None == "None"

Sessions == {"x11", "wayland", ""}

\* The probes _detect_text_injector makes: XDG_SESSION_TYPE, `which` for each
\* tool, and pgrep for the ydotoold daemon.
Envs ==
    [session : Sessions, xdotool : BOOLEAN, ydotool : BOOLEAN,
     ydotoold : BOOLEAN, wtype : BOOLEAN]

\* The generic fallback, lines 136-147.
DetectFallback(e) ==
    IF e.xdotool THEN "xdotool"
    ELSE IF e.ydotool THEN "ydotool"
    ELSE None

\* DetectWayland without the pgrep for ydotoold.
DetectWaylandNoDaemonCheck(e) ==
    IF e.ydotool THEN "ydotool"
    ELSE IF e.wtype THEN "wtype"
    ELSE DetectFallback(e)

\* The wayland branch, lines 117-134.
DetectWayland(e) ==
    IF e.ydotool /\ e.ydotoold THEN "ydotool"
    ELSE IF e.wtype THEN "wtype"
    ELSE DetectFallback(e)

\* VoiceDaemon._detect_text_injector
DetectTextInjector(e) ==
    IF e.session = "x11" /\ e.xdotool THEN "xdotool"
    ELSE IF e.session = "wayland" THEN DetectWayland(e)
    ELSE DetectFallback(e)

Injectors == {DetectTextInjector(e) : e \in Envs}

\* ------------------------------------------------------------------ state

VARIABLES
    \* VoiceDaemon fields
    is_listening,       \* self.is_listening
    shutdown_flag,      \* self.shutdown_flag
    recorder,           \* self.recorder: NoWorker (None), or the worker that created it
    listen_thread,      \* self.listen_thread: NoWorker, or the last worker spawned
    last_typed_text,    \* self.last_typed_text
    word_by_word,       \* self.word_by_word
    text_injector,      \* self.text_injector
    tray,               \* tray icon, tooltip and toggle_action text
    \* files
    toggle_file,        \* /tmp/voice-daemon-toggle exists
    pid_file,           \* content of /tmp/voice-daemon.pid
    \* threads and recorder objects
    pc,                 \* pc[w]: where worker w is in _listen_loop
    reading,            \* reading[w]: the recorder w is blocked on in text()
    rec,                \* rec[r]: state of the recorder object created by r
    ctl,                \* where the control thread is
    \* the Qt event loop
    queue,              \* queued signal emissions, in posting order
    queued_toggles,     \* QTimer.singleShot(0, toggle_listening) not yet run
    \* effect of the last step on the outside world
    typed,              \* what the last step showed the user: the _type_text
                        \* call it made (the text asked for, the tool run,
                        \* None for no tool, and whether the tool succeeded)
                        \* and the notice on_error printed and notified
    \* startup
    phase,              \* main / init / running / exited
    env,                \* the environment _detect_text_injector probes
    tray_available,     \* QSystemTrayIcon.isSystemTrayAvailable()
    exit_code,          \* the process's exit status, once exited
    peer,               \* where a second daemon process, started at the
                        \* same time, is: none / main / init / running / exited
    \* the one-shot program
    dictate,            \* the process running dictate.py
    \* history
    pid0,               \* content of the PID file when main() began
    cb,                 \* the _on_realtime_update call the last step made
    utt,                \* hypotheses and deltas of the current utterance
    read_failed,        \* the workers whose read raised while they were
                        \* the worker of the current Listening period
    err_stops,          \* err_stops[w]: Listening->Idle transitions made on
                        \* signals of worker w, for w in read_failed
    after_err,          \* Idle was entered by such a transition
    buf_owner,          \* the worker whose callback wrote the text now in
                        \* last_typed_text; NoWorker while it is empty
    call                \* the call the last step made or saw return: its
                        \* name, the Listening State and the queue length it
                        \* found, and the text recorder.text() returned

daemonVars ==
    <<is_listening, shutdown_flag, recorder, listen_thread, last_typed_text,
      word_by_word, text_injector, tray, toggle_file, pid_file, pc, reading,
      rec, ctl, queue, queued_toggles, typed>>

startVars == <<phase, env, tray_available, exit_code, peer>>

histVars ==
    <<pid0, cb, utt, read_failed, err_stops, after_err, buf_owner, call>>

vars == <<daemonVars, startVars, dictate, histVars>>

Workers == 1..MaxWorkers

\* None, in a field that holds a thread or the recorder a thread created.
NoWorker == 0

NoRun ==
    [called |-> FALSE, text |-> <<>>, tool |-> None, ok |-> TRUE,
     notice |-> None]

NoCall ==
    [called |-> FALSE, src |-> NoWorker, text |-> <<>>, buf |-> <<>>,
     qlen |-> 0, gated |-> FALSE, owner |-> NoWorker]

NoMethod == [name |-> "none", was |-> FALSE, arg |-> <<>>, qlen |-> 0]

NoUtt == [begun |-> FALSE, ok |-> TRUE, last |-> <<>>, cat |-> <<>>]

\* The three looks _update_tray_icon, setToolTip and setText give the tray.
TrayIdle ==
    [icon |-> "idle", tooltip |-> "Voice Dictation - Idle",
     menu |-> "Start Listening"]

TrayListening ==
    [icon |-> "active", tooltip |-> "Voice Dictation - LISTENING",
     menu |-> "Stop Listening"]

\* pyqtSignal.emit from a worker: a queued call of the connected slot.
Signal(kind, text, w) == [kind |-> kind, text |-> text, src |-> w]

Emit(sig) ==
    /\ Len(queue) < MaxQueue
    /\ queue' = Append(queue, sig)

Alive(w) == pc[w] \notin {"idle", "done"}

\* ---------------------------------------------------------- control thread

\* start_listening without `self.is_listening = True`.
StartListeningNoFlag ==
    /\ ~is_listening
    /\ \E w \in Workers :
        /\ pc[w] = "idle"
        /\ \A v \in Workers : v < w => pc[v] # "idle"
        /\ shutdown_flag' = FALSE
        /\ tray' = TrayListening
        /\ listen_thread' = w
        /\ pc' = [pc EXCEPT ![w] = "start"]
    /\ ctl' = "ready"
    /\ UNCHANGED <<is_listening, recorder, rec, reading, last_typed_text, queue>>

\* VoiceDaemon.start_listening, called with is_listening false: the guard at
\* line 249 returns otherwise (see toggle_listening).
StartListening ==
    /\ ~is_listening
    /\ \E w \in Workers :
        /\ pc[w] = "idle"
        /\ \A v \in Workers : v < w => pc[v] # "idle"
        /\ is_listening' = TRUE
        /\ shutdown_flag' = FALSE
        /\ tray' = TrayListening
        /\ listen_thread' = w
        /\ pc' = [pc EXCEPT ![w] = "start"]
    /\ ctl' = "ready"
    /\ UNCHANGED <<recorder, rec, reading, last_typed_text, queue>>

\* stop_listening without lines 277-279: the tray is left as it was.
StopListeningNoTray ==
    /\ is_listening
    /\ is_listening' = FALSE
    /\ shutdown_flag' = TRUE
    /\ ctl' = "stop_rec"
    /\ UNCHANGED <<tray, recorder, rec, reading, last_typed_text,
                   listen_thread, pc>>

\* VoiceDaemon.stop_listening, lines 270-285: the flags, the tray, the sound
\* and the notification.  The recorder is shut down in the next step.
StopListening ==
    /\ is_listening
    /\ is_listening' = FALSE
    /\ shutdown_flag' = TRUE
    /\ tray' = TrayIdle
    /\ ctl' = "stop_rec"
    /\ UNCHANGED <<recorder, rec, reading, last_typed_text, listen_thread, pc>>

\* VoiceDaemon.stop_listening, lines 287-296.
StopRecorder ==
    /\ ctl = "stop_rec"
    /\ ctl' = "ready"
    /\ IF recorder # NoWorker
       THEN /\ rec' = [rec EXCEPT ![recorder] = "closed"]
            /\ recorder' = NoWorker
       ELSE UNCHANGED <<rec, recorder>>
    /\ typed' = NoRun
    /\ UNCHANGED <<is_listening, shutdown_flag, tray, listen_thread, pc,
                   reading, last_typed_text, queue, queued_toggles, toggle_file>>

\* start_listening without the guard at lines 249-250.
StartListeningCallUnguarded ==
    /\ \E w \in Workers :
        /\ pc[w] = "idle"
        /\ \A v \in Workers : v < w => pc[v] # "idle"
        /\ is_listening' = TRUE
        /\ shutdown_flag' = FALSE
        /\ tray' = TrayListening
        /\ listen_thread' = w
        /\ pc' = [pc EXCEPT ![w] = "start"]
    /\ ctl' = "ready"
    /\ typed' = [NoRun EXCEPT !.notice = "listening"]
    /\ UNCHANGED <<recorder, rec, reading, last_typed_text, queue>>

\* A call of VoiceDaemon.start_listening in either state, lines 247-268: it
\* returns at the guard when Listening, and otherwise also plays the start
\* sound and shows the notification 'Listening... Speak now!' (lines 259-262).
StartListeningCall ==
    IF is_listening
    THEN /\ typed' = NoRun
         /\ UNCHANGED <<is_listening, shutdown_flag, tray, listen_thread, pc,
                        ctl, recorder, rec, reading, last_typed_text, queue>>
    ELSE /\ StartListening
         /\ typed' = [NoRun EXCEPT !.notice = "listening"]

\* A call of VoiceDaemon.stop_listening in either state, lines 270-285: it
\* returns at the guard when Idle, and otherwise also plays the stop sound
\* and shows the notification 'Stopped listening' (lines 281-285).
StopListeningCall ==
    IF ~is_listening
    THEN /\ typed' = NoRun
         /\ UNCHANGED <<is_listening, shutdown_flag, tray, listen_thread, pc,
                        ctl, recorder, rec, reading, last_typed_text, queue>>
    ELSE /\ StopListening
         /\ typed' = [NoRun EXCEPT !.notice = "stopped"]
         /\ UNCHANGED queue

\* A call of VoiceDaemon.toggle_listening, lines 240-245, through the two
\* guarded methods.
ToggleListeningCall ==
    IF is_listening THEN StopListeningCall ELSE StartListeningCall

\* The three methods called on the control thread between two of its events.
CallStart ==
    /\ ctl = "ready"
    /\ StartListeningCall
    /\ UNCHANGED <<queued_toggles, toggle_file>>

CallStop ==
    /\ ctl = "ready"
    /\ StopListeningCall
    /\ UNCHANGED <<queued_toggles, toggle_file>>

CallToggle ==
    /\ ctl = "ready"
    /\ ToggleListeningCall
    /\ UNCHANGED <<queued_toggles, toggle_file>>

\* VoiceDaemon.toggle_listening
ToggleListening ==
    IF is_listening THEN StopListening /\ queue' = queue
    ELSE StartListening

\* A left click on the tray icon, or the menu's toggle action.
TrayClick ==
    /\ ctl = "ready"
    /\ ToggleListening
    /\ typed' = NoRun
    /\ UNCHANGED <<queued_toggles, toggle_file>>

\* _check_toggle_file without the unlink.
CheckToggleFileKeep ==
    /\ ctl = "ready"
    /\ toggle_file
    /\ ToggleListening
    /\ typed' = NoRun
    /\ UNCHANGED <<queued_toggles, toggle_file>>

\* VoiceDaemon._check_toggle_file, run by the 200 ms timer.
CheckToggleFile ==
    /\ ctl = "ready"
    /\ toggle_file
    /\ toggle_file' = FALSE
    /\ ToggleListening
    /\ typed' = NoRun
    /\ UNCHANGED <<queued_toggles>>

\* SIGUSR1 arrives and VoiceDaemon._toggle_signal_handler runs: Python runs
\* the handler on the main thread between two bytecodes, and it only queues
\* the toggle.
ToggleSignalHandler ==
    /\ queued_toggles < MaxToggles
    /\ queued_toggles' = queued_toggles + 1
    /\ typed' = NoRun
    /\ UNCHANGED <<is_listening, shutdown_flag, recorder, listen_thread,
                   last_typed_text, tray, toggle_file, pc, reading, rec, ctl,
                   queue>>

\* The event loop runs a toggle queued by QTimer.singleShot(0, ...).
RunQueuedToggle ==
    /\ ctl = "ready"
    /\ queued_toggles > 0
    /\ queued_toggles' = queued_toggles - 1
    /\ ToggleListening
    /\ typed' = NoRun
    /\ UNCHANGED <<toggle_file>>

\* Another process creates the marker file (touch /tmp/voice-daemon-toggle).
TouchToggleFile ==
    /\ ~toggle_file
    /\ toggle_file' = TRUE
    /\ typed' = NoRun
    /\ UNCHANGED <<is_listening, shutdown_flag, recorder, listen_thread,
                   last_typed_text, tray, pc, reading, rec, ctl, queue,
                   queued_toggles>>

\* _type_text falling back to xdotool when no injector was found.
TypeTextDefaultTool(text) ==
    IF text = <<>>
    THEN typed' = [NoRun EXCEPT !.called = TRUE, !.text = text]
    ELSE \E ok \in BOOLEAN :
            typed' = [NoRun EXCEPT !.called = TRUE, !.text = text,
                                   !.tool = IF text_injector = None
                                            THEN "xdotool" ELSE text_injector,
                                   !.ok = ok]

\* VoiceDaemon._type_text: no tool is run for an empty text or without an
\* injector; a tool that fails raises into the handlers at lines 423-426.
TypeText(text) ==
    IF text = <<>> \/ text_injector = None
    THEN typed' = [NoRun EXCEPT !.called = TRUE, !.text = text]
    ELSE \E ok \in BOOLEAN :
            typed' = [NoRun EXCEPT !.called = TRUE, !.text = text,
                                   !.tool = text_injector, !.ok = ok]

\* on_text_ready stopping Listening when the typing tool fails.
OnTextReadyStopOnFailure(text) ==
    /\ TypeText(text)
    /\ IF ~typed'.ok /\ is_listening
       THEN /\ is_listening' = FALSE
            /\ shutdown_flag' = TRUE
            /\ tray' = TrayIdle
            /\ ctl' = "stop_rec"
            /\ UNCHANGED <<recorder, rec, reading, last_typed_text,
                           listen_thread, pc>>
       ELSE UNCHANGED <<is_listening, shutdown_flag, tray, ctl, recorder, rec,
                        reading, last_typed_text, listen_thread, pc>>

\* VoiceDaemon.on_text_ready
OnTextReady(text) ==
    /\ TypeText(text)
    /\ UNCHANGED <<is_listening, shutdown_flag, tray, ctl, recorder, rec,
                   reading, last_typed_text, listen_thread, pc>>

\* VoiceDaemon.on_status_changed
OnStatusChanged(listening) ==
    /\ typed' = NoRun
    /\ IF ~listening /\ is_listening
       THEN StopListening
       ELSE UNCHANGED <<is_listening, shutdown_flag, tray, ctl, recorder, rec,
                        reading, last_typed_text, listen_thread, pc>>

\* on_error showing the error and leaving Listening on.
OnErrorKeepListening ==
    /\ typed' = [NoRun EXCEPT !.notice = "error"]
    /\ UNCHANGED <<is_listening, shutdown_flag, tray, ctl, recorder, rec,
                   reading, last_typed_text, listen_thread, pc>>

\* VoiceDaemon.on_error: the error is printed and notified (lines 398-399),
\* then Listening is stopped.
OnError ==
    /\ typed' = [NoRun EXCEPT !.notice = "error"]
    /\ IF is_listening
       THEN StopListening
       ELSE UNCHANGED <<is_listening, shutdown_flag, tray, ctl, recorder, rec,
                        reading, last_typed_text, listen_thread, pc>>

\* The event loop delivers the oldest queued signal to its slot.
DeliverSignal ==
    /\ ctl = "ready"
    /\ queue # <<>>
    /\ queue' = Tail(queue)
    /\ LET sig == Head(queue) IN
        CASE sig.kind = "text_ready" -> OnTextReady(sig.text)
          [] sig.kind = "status_changed" -> OnStatusChanged(FALSE)
          [] sig.kind = "error_occurred" -> OnError
    /\ UNCHANGED <<queued_toggles, toggle_file>>

\* ----------------------------------------------------------- worker thread

\* What no step of a worker thread writes.
ctlOwned ==
    <<is_listening, shutdown_flag, tray, listen_thread, ctl, queued_toggles,
      toggle_file>>

\* A worker step leaves the control thread's state alone and types nothing.
WorkerFrame ==
    /\ typed' = NoRun
    /\ UNCHANGED ctlOwned

\* _listen_loop, line 314: reset the typed text tracker.
WorkerStart(w) ==
    /\ pc[w] = "start"
    /\ last_typed_text' = <<>>
    /\ pc' = [pc EXCEPT ![w] = "construct"]
    /\ UNCHANGED <<recorder, rec, reading, queue>>
    /\ WorkerFrame

\* _listen_loop, lines 317-345: AudioToTextRecorder(...) returns and is
\* stored in self.recorder, or raises into the handler at line 371.
WorkerConstruct(w) ==
    /\ pc[w] = "construct"
    /\ \/ /\ recorder' = w
          /\ rec' = [rec EXCEPT ![w] = "live"]
          /\ pc' = [pc EXCEPT ![w] = "loop"]
       \/ /\ pc' = [pc EXCEPT ![w] = "except_outer"]
          /\ UNCHANGED <<recorder, rec>>
    /\ UNCHANGED <<reading, last_typed_text, queue>>
    /\ WorkerFrame

\* _listen_loop, lines 349-351 and 356-358: the loop condition, then the
\* call self.recorder.text(), which raises AttributeError on None.
WorkerLoop(w) ==
    /\ pc[w] = "loop"
    /\ IF is_listening /\ ~shutdown_flag
       THEN IF recorder = NoWorker
            THEN /\ pc' = [pc EXCEPT ![w] =
                            IF word_by_word THEN "except_outer"
                            ELSE "except_inner"]
                 /\ UNCHANGED reading
            ELSE /\ pc' = [pc EXCEPT ![w] = "read"]
                 /\ reading' = [reading EXCEPT ![w] = recorder]
       ELSE /\ pc' = [pc EXCEPT ![w] = "fin_rec"]
            /\ UNCHANGED reading
    /\ UNCHANGED <<recorder, rec, last_typed_text, queue>>
    /\ WorkerFrame

\* recorder.text() returns `text`: line 353 in word-by-word mode, lines
\* 360-364 in phrase-by-phrase mode.
WorkerReadReturn(w, text) ==
    /\ pc[w] = "read"
    /\ IF word_by_word
       THEN /\ last_typed_text' = <<>>
            /\ pc' = [pc EXCEPT ![w] = "loop"]
            /\ UNCHANGED queue
       ELSE /\ UNCHANGED last_typed_text
            /\ IF shutdown_flag
               THEN /\ pc' = [pc EXCEPT ![w] = "fin_rec"]
                    /\ UNCHANGED queue
               ELSE /\ pc' = [pc EXCEPT ![w] = "loop"]
                    /\ IF Strip(text) # <<>>
                       THEN Emit(Signal("text_ready", Strip(text), w))
                       ELSE UNCHANGED queue
    /\ reading' = [reading EXCEPT ![w] = NoWorker]
    /\ UNCHANGED <<recorder, rec>>
    /\ WorkerFrame

\* recorder.text() raises.
WorkerReadRaise(w) ==
    /\ pc[w] = "read"
    /\ pc' = [pc EXCEPT ![w] =
                IF word_by_word THEN "except_outer" ELSE "except_inner"]
    /\ reading' = [reading EXCEPT ![w] = NoWorker]
    /\ UNCHANGED <<recorder, rec, last_typed_text, queue>>
    /\ WorkerFrame

\* _listen_loop, lines 366-369.
WorkerExceptInner(w) ==
    /\ pc[w] = "except_inner"
    /\ IF ~shutdown_flag
       THEN Emit(Signal("error_occurred", <<>>, w))
       ELSE UNCHANGED queue
    /\ pc' = [pc EXCEPT ![w] = "fin_rec"]
    /\ UNCHANGED <<recorder, rec, reading, last_typed_text>>
    /\ WorkerFrame

\* _listen_loop, lines 371-372.
WorkerExceptOuter(w) ==
    /\ pc[w] = "except_outer"
    /\ Emit(Signal("error_occurred", <<>>, w))
    /\ pc' = [pc EXCEPT ![w] = "fin_rec"]
    /\ UNCHANGED <<recorder, rec, reading, last_typed_text>>
    /\ WorkerFrame

\* _listen_loop, lines 375-380.
WorkerFinallyRecorder(w) ==
    /\ pc[w] = "fin_rec"
    /\ IF recorder # NoWorker
       THEN /\ rec' = [rec EXCEPT ![recorder] = "closed"]
            /\ recorder' = NoWorker
       ELSE UNCHANGED <<rec, recorder>>
    /\ pc' = [pc EXCEPT ![w] = "fin_status"]
    /\ UNCHANGED <<reading, last_typed_text, queue>>
    /\ WorkerFrame

\* The finally block setting the state itself instead of emitting
\* status_changed.
WorkerFinallyStatusDirect(w) ==
    /\ pc[w] = "fin_status"
    /\ is_listening' = FALSE
    /\ tray' = TrayIdle
    /\ pc' = [pc EXCEPT ![w] = "done"]
    /\ UNCHANGED <<recorder, rec, reading, last_typed_text, queue,
                   shutdown_flag, listen_thread, ctl, queued_toggles,
                   toggle_file>>
    /\ typed' = NoRun

\* _listen_loop, lines 382-384, and the thread's exit.
WorkerFinallyStatus(w) ==
    /\ pc[w] = "fin_status"
    /\ IF is_listening
       THEN Emit(Signal("status_changed", <<>>, w))
       ELSE UNCHANGED queue
    /\ pc' = [pc EXCEPT ![w] = "done"]
    /\ UNCHANGED <<recorder, rec, reading, last_typed_text>>
    /\ WorkerFrame

\* The recorder calls its on_realtime_transcription_update callback while a
\* worker is blocked in text() on it; only word-by-word recorders have one.
CallbackSource(w) ==
    /\ word_by_word
    /\ pc[w] = "read"
    /\ rec[reading[w]] = "live"

\* _on_realtime_update typing a revised hypothesis over again in full.
OnRealtimeUpdateRetype(w, text) ==
    /\ CallbackSource(w)
    /\ IF shutdown_flag \/ ~is_listening
       THEN UNCHANGED <<queue, last_typed_text>>
       ELSE LET new_text ==
                    IF StartsWith(text, last_typed_text)
                    THEN LStrip(SliceFrom(text, Len(last_typed_text)))
                    ELSE LStrip(text)
            IN  IF new_text # <<>>
                THEN /\ Emit(Signal("text_ready", new_text, w))
                     /\ last_typed_text' = text
                ELSE UNCHANGED <<queue, last_typed_text>>
    /\ UNCHANGED <<recorder, rec, reading, pc>>
    /\ WorkerFrame

\* _on_realtime_update storing the hypothesis even when nothing is emitted.
OnRealtimeUpdateAlwaysBuffer(w, text) ==
    /\ CallbackSource(w)
    /\ IF shutdown_flag \/ ~is_listening
       THEN UNCHANGED <<queue, last_typed_text>>
       ELSE IF StartsWith(text, last_typed_text)
            THEN LET new_text == LStrip(SliceFrom(text, Len(last_typed_text)))
                 IN  /\ last_typed_text' = text
                     /\ IF new_text # <<>>
                        THEN Emit(Signal("text_ready", new_text, w))
                        ELSE UNCHANGED queue
            ELSE UNCHANGED <<queue, last_typed_text>>
    /\ UNCHANGED <<recorder, rec, reading, pc>>
    /\ WorkerFrame

\* VoiceDaemon._on_realtime_update, called for the recorder worker w reads.
OnRealtimeUpdate(w, text) ==
    /\ CallbackSource(w)
    /\ IF shutdown_flag \/ ~is_listening
       THEN UNCHANGED <<queue, last_typed_text>>
       ELSE IF StartsWith(text, last_typed_text)
            THEN LET new_text == LStrip(SliceFrom(text, Len(last_typed_text)))
                 IN  IF new_text # <<>>
                     THEN /\ Emit(Signal("text_ready", new_text, w))
                          /\ last_typed_text' = text
                     ELSE UNCHANGED <<queue, last_typed_text>>
            ELSE UNCHANGED <<queue, last_typed_text>>
    /\ UNCHANGED <<recorder, rec, reading, pc>>
    /\ WorkerFrame

\* ------------------------------------------------------------------ startup

PidContents == {"absent", "live", "foreign", "dead", "garbage"}

\* main() with a bare `except:`, which also catches the SystemExit.
MainCheckBareExcept ==
    /\ phase = "main"
    /\ IF pid_file = "absent"
       THEN /\ phase' = "init"
            /\ UNCHANGED <<pid_file, exit_code>>
       ELSE /\ pid_file' = "absent"
            /\ phase' = "init"
            /\ UNCHANGED exit_code
    /\ UNCHANGED <<is_listening, shutdown_flag, recorder, listen_thread,
                   last_typed_text, word_by_word, text_injector, tray,
                   toggle_file, pc, reading, rec, ctl, queue, queued_toggles,
                   typed, env, tray_available>>

\* main(), lines 499-512.  "live" names a running process this user may
\* signal, "foreign" one that os.kill refuses with PermissionError (uncaught:
\* traceback, exit status 1), "dead" no process, "garbage" no integer,
\* "peer" the PID a second daemon process wrote.
MainCheck ==
    /\ phase = "main"
    /\ CASE pid_file = "absent" ->
                /\ phase' = "init"
                /\ UNCHANGED <<pid_file, exit_code>>
         [] pid_file \in {"live", "foreign", "peer"} ->
                /\ phase' = "exited"
                /\ exit_code' = 1
                /\ UNCHANGED pid_file
         [] pid_file \in {"dead", "garbage"} ->
                /\ pid_file' = "absent"
                /\ phase' = "init"
                /\ UNCHANGED exit_code
    /\ UNCHANGED <<is_listening, shutdown_flag, recorder, listen_thread,
                   last_typed_text, word_by_word, text_injector, tray,
                   toggle_file, pc, reading, rec, ctl, queue, queued_toggles,
                   typed, env, tray_available>>

\* VoiceDaemon.__init__, lines 51-103: the fields, the injector, the tray
\* (sys.exit(1) without a system tray), the toggle watcher, the PID file.
Construct ==
    /\ phase = "init"
    /\ is_listening' = FALSE
    /\ shutdown_flag' = FALSE
    /\ recorder' = NoWorker
    /\ listen_thread' = NoWorker
    /\ last_typed_text' = <<>>
    /\ text_injector' = DetectTextInjector(env)
    /\ IF tray_available
       THEN /\ tray' = TrayIdle
            /\ toggle_file' = FALSE
            /\ pid_file' = "self"
            /\ phase' = "running"
            /\ UNCHANGED exit_code
       ELSE /\ phase' = "exited"
            /\ exit_code' = 1
            /\ UNCHANGED <<tray, toggle_file, pid_file>>
    /\ UNCHANGED <<word_by_word, pc, reading, rec, ctl, queue, queued_toggles,
                   typed, env, tray_available>>

\* A second daemon process started at the same time, sharing
\* /tmp/voice-daemon.pid: its main(), lines 499-512, for which "self" is the
\* PID of the first process.
PeerMainCheck ==
    /\ peer = "main"
    /\ CASE pid_file = "absent" ->
                /\ peer' = "init"
                /\ UNCHANGED pid_file
         [] pid_file \in {"live", "foreign", "self"} ->
                /\ peer' = "exited"
                /\ UNCHANGED pid_file
         [] pid_file \in {"dead", "garbage"} ->
                /\ pid_file' = "absent"
                /\ peer' = "init"
    /\ UNCHANGED <<is_listening, shutdown_flag, recorder, listen_thread,
                   last_typed_text, word_by_word, text_injector, tray,
                   toggle_file, pc, reading, rec, ctl, queue, queued_toggles,
                   typed, phase, env, tray_available, exit_code>>

\* The second process's constructor, lines 51-103: it exits without a system
\* tray (line 159) and otherwise writes its PID (lines 90, 228) and runs.
PeerConstruct ==
    /\ peer = "init"
    /\ IF tray_available
       THEN /\ pid_file' = "peer"
            /\ peer' = "running"
       ELSE /\ peer' = "exited"
            /\ UNCHANGED pid_file
    /\ UNCHANGED <<is_listening, shutdown_flag, recorder, listen_thread,
                   last_typed_text, word_by_word, text_injector, tray,
                   toggle_file, pc, reading, rec, ctl, queue, queued_toggles,
                   typed, phase, env, tray_available, exit_code>>

\* ----------------------------------------------------------------- shutdown

\* VoiceDaemon.quit, lines 471-472, from the tray menu's Quit action or from
\* _signal_handler on SIGINT/SIGTERM: the stop flag, then stop_listening up
\* to its notification (lines 272-285), which returns at once when Idle.
Quit ==
    /\ phase = "running"
    /\ ctl = "ready"
    /\ shutdown_flag' = TRUE
    /\ IF is_listening
       THEN /\ is_listening' = FALSE
            /\ tray' = TrayIdle
            /\ ctl' = "quit_rec"
       ELSE /\ ctl' = "quit_cleanup"
            /\ UNCHANGED <<is_listening, tray>>
    /\ typed' = NoRun
    /\ UNCHANGED <<recorder, rec, reading, last_typed_text, listen_thread, pc,
                   queue, queued_toggles, toggle_file, pid_file, phase,
                   exit_code>>

\* stop_listening inside quit, lines 287-296.
QuitStopRecorder ==
    /\ ctl = "quit_rec"
    /\ ctl' = "quit_cleanup"
    /\ IF recorder # NoWorker
       THEN /\ rec' = [rec EXCEPT ![recorder] = "closed"]
            /\ recorder' = NoWorker
       ELSE UNCHANGED <<rec, recorder>>
    /\ typed' = NoRun
    /\ UNCHANGED <<is_listening, shutdown_flag, tray, listen_thread, pc,
                   reading, last_typed_text, queue, queued_toggles, toggle_file,
                   pid_file, phase, exit_code>>

\* VoiceDaemon.quit, lines 474-481: the files are removed and app.quit()
\* ends the event loop; app.exec() returns 0 and main() exits with it (line
\* 515).  No worker thread is joined: they are daemon threads and end with
\* the process, wherever they are.
QuitCleanup ==
    /\ ctl = "quit_cleanup"
    /\ ctl' = "quit_done"
    /\ pid_file' = "absent"
    /\ toggle_file' = FALSE
    /\ phase' = "exited"
    /\ exit_code' = 0
    /\ typed' = NoRun
    /\ UNCHANGED <<is_listening, shutdown_flag, recorder, rec, reading, tray,
                   listen_thread, pc, last_typed_text, queue, queued_toggles>>

\* SIGINT or SIGTERM while the constructor runs: _signal_handler is installed
\* by its last statements (lines 94-95), so until then the signal has
\* Python's default effect.  SIGINT raises KeyboardInterrupt, which nothing
\* catches: a traceback, and the process ends on the signal (status 130);
\* SIGTERM ends the process (status 143).  quit does not run.
StartupInterrupt ==
    /\ phase = "init"
    /\ phase' = "exited"
    /\ ctl' = "killed"
    /\ \E sig \in {"SIGINT", "SIGTERM"} :
          exit_code' = IF sig = "SIGINT" THEN 130 ELSE 143
    /\ UNCHANGED <<is_listening, shutdown_flag, recorder, listen_thread,
                   last_typed_text, word_by_word, text_injector, tray,
                   toggle_file, pid_file, pc, reading, rec, queue,
                   queued_toggles, typed, env, tray_available>>

\* ------------------------------------------------------ the one-shot program

\* dictate.py: --test-mic, --continuous, or a single dictation.
Modes == {"once", "continuous", "test"}

\* The process of dictate.py: where it is, its mode, the global
\* shutdown_requested, its exit status and what made it exit with 1;
\* `raised` records that a read of the transcription source has raised.
DictateOff ==
    [pc |-> "off", mode |-> "once", shutdown_requested |-> FALSE,
     raised |-> FALSE, exit_code |-> 0, cause |-> None]

\* sys.exit(code), or the end of main().
DictateExit(d, code, cause) ==
    [d EXCEPT !.pc = "exited", !.exit_code = code, !.cause = cause]

\* listen_once returns to its caller: the loop of listen_continuous (line
\* 147), or main()'s finally block (line 287).
DictateReturn(d) ==
    [d EXCEPT !.pc = IF d.mode = "continuous" THEN "listen" ELSE "cleanup"]

\* What becomes of the process when `exc` is raised where it stands: the
\* except clauses around each place, innermost first.
DictateRaise(d, exc) ==
    CASE d.pc = "import" ->
            \* lines 26-33: except ImportError
            IF exc = "ImportError" THEN DictateExit(d, 1, "dependency")
            ELSE IF exc = "SystemExit" THEN DictateExit(d, 0, None)
            ELSE DictateExit(d, 1, "uncaught")
      [] d.pc = "init" ->
            \* lines 58-77: except Exception; lines 260-268: except
            \* KeyboardInterrupt
            IF exc = "SystemExit" THEN DictateExit(d, 0, None)
            ELSE IF exc = "KeyboardInterrupt" THEN DictateExit(d, 0, None)
            ELSE DictateExit(d, 1, "init")
      [] d.pc = "test" ->
            \* lines 166-182: both handlers return False, and main() exits
            \* with 1 (line 274); SystemExit passes lines 275-277
            IF exc = "SystemExit" THEN DictateExit(d, 0, None)
            ELSE DictateExit(d, 1, "selftest")
      [] d.pc = "listen" ->
            \* lines 97-102 and 147: outside listen_once's try; lines 152 and
            \* 285 catch KeyboardInterrupt, then main() ends
            IF exc = "Exception" THEN DictateExit(d, 1, "uncaught")
            ELSE DictateExit(d, 0, None)
      [] d.pc = "read" ->
            \* lines 104-130: both handlers return ""; SystemExit passes
            \* them and lines 152 and 285
            IF exc = "SystemExit" THEN DictateExit(d, 0, None)
            ELSE IF exc = "KeyboardInterrupt" THEN DictateReturn(d)
            ELSE DictateReturn([d EXCEPT !.raised = TRUE])
      [] d.pc = "cleanup" ->
            \* lines 289-293: a bare except around recorder.shutdown()
            d
      [] OTHER -> d

\* signal_handler, lines 16-21: the flag, then sys.exit(0).
SignalHandler(d) ==
    DictateRaise([d EXCEPT !.shutdown_requested = TRUE], "SystemExit")

\* What no step of the one-shot program touches.
daemonState == <<daemonVars, startVars, histVars>>

\* SIGINT, at any point after line 24 registered the handler.
DictateSigint ==
    /\ dictate.pc \notin {"off", "exited"}
    /\ dictate' = SignalHandler(dictate)
    /\ UNCHANGED daemonState

\* Lines 26-33: the imports of RealtimeSTT and pyperclip.
DictateImport ==
    /\ dictate.pc = "import"
    /\ \/ dictate' = [dictate EXCEPT !.pc = "init"]
       \/ dictate' = DictateRaise(dictate, "ImportError")
    /\ UNCHANGED daemonState

\* VoiceDictation.__init__, lines 58-77, then main() lines 271 and 280-284.
DictateInit ==
    /\ dictate.pc = "init"
    /\ \/ dictate' = [dictate EXCEPT !.pc = IF dictate.mode = "test"
                                            THEN "test" ELSE "listen"]
       \/ dictate' = DictateRaise(dictate, "Exception")
    /\ UNCHANGED daemonState

\* test_microphone: recorder.text() returns `text`, lines 167-176, and main()
\* exits with 0 or 1 (line 274).
DictateTestReturn(text) ==
    /\ dictate.pc = "test"
    /\ dictate' = IF text # <<>> THEN DictateExit(dictate, 0, None)
                  ELSE DictateExit(dictate, 1, "selftest")
    /\ UNCHANGED daemonState

\* test_microphone: recorder.text() raises.
DictateTestRaise ==
    /\ dictate.pc = "test"
    /\ dictate' = DictateRaise(dictate, "Exception")
    /\ UNCHANGED daemonState

\* listen_continuous line 147 and listen_once lines 99-106: with the flag
\* set nothing is read; otherwise recorder.text() is called.
DictateListen ==
    /\ dictate.pc = "listen"
    /\ dictate' = [dictate EXCEPT !.pc = IF dictate.shutdown_requested
                                         THEN "cleanup" ELSE "read"]
    /\ UNCHANGED daemonState

\* listen_once: recorder.text() returns, lines 106-122.
DictateReadReturn ==
    /\ dictate.pc = "read"
    /\ dictate' = DictateReturn(dictate)
    /\ UNCHANGED daemonState

\* listen_once: recorder.text() raises, lines 127-130.
DictateReadRaise ==
    /\ dictate.pc = "read"
    /\ dictate' = DictateRaise(dictate, "Exception")
    /\ UNCHANGED daemonState

\* The finally blocks, lines 154-159 and 287-293, and the end of main().
DictateCleanup ==
    /\ dictate.pc = "cleanup"
    /\ dictate' = DictateExit(dictate, 0, None)
    /\ UNCHANGED daemonState

\* ------------------------------------------------------------------ history

fixedVars ==
    <<word_by_word, text_injector, pid_file, phase, env, tray_available,
      exit_code, pid0, dictate, peer>>

\* A control-thread or environment step other than a signal delivery.
HistPlain ==
    /\ UNCHANGED fixedVars
    /\ cb' = NoCall
    /\ call' = NoMethod
    /\ after_err' = (after_err /\ ~is_listening')
    /\ UNCHANGED <<utt, read_failed, err_stops, buf_owner>>

\* A call of the method `name` on the control thread.
HistCall(name) ==
    /\ UNCHANGED fixedVars
    /\ cb' = NoCall
    /\ call' = [name |-> name, was |-> is_listening, arg |-> <<>>,
                qlen |-> Len(queue)]
    /\ after_err' = (after_err /\ ~is_listening')
    /\ UNCHANGED <<utt, read_failed, err_stops, buf_owner>>

\* The second half of a stop_listening call: still the same call.
HistSameCall ==
    /\ UNCHANGED fixedVars
    /\ cb' = NoCall
    /\ call' = call
    /\ after_err' = (after_err /\ ~is_listening')
    /\ UNCHANGED <<utt, read_failed, err_stops, buf_owner>>

\* A step of quit.
HistQuit ==
    /\ UNCHANGED <<word_by_word, text_injector, env, tray_available, pid0,
                   dictate, peer>>
    /\ cb' = NoCall
    /\ call' = NoMethod
    /\ after_err' = after_err
    /\ UNCHANGED <<utt, read_failed, err_stops, buf_owner>>

\* The delivery of the oldest queued signal.
HistDeliver ==
    LET src == Head(queue).src
        errstop == is_listening /\ ~is_listening' /\ src \in read_failed
    IN  /\ UNCHANGED fixedVars
        /\ cb' = NoCall
        /\ err_stops' = IF errstop
                        THEN [err_stops EXCEPT ![src] = @ + 1]
                        ELSE err_stops
        /\ after_err' = (errstop \/ after_err)
        /\ call' = NoMethod
        /\ UNCHANGED <<utt, read_failed, buf_owner>>

\* A step of worker w.
HistWorker(w) ==
    /\ UNCHANGED fixedVars
    /\ cb' = NoCall
    /\ read_failed' =
          IF /\ pc[w] = "read"
             /\ pc'[w] \in {"except_inner", "except_outer"}
             /\ is_listening /\ listen_thread = w
          THEN read_failed \cup {w} ELSE read_failed
    /\ buf_owner' = IF last_typed_text' = <<>> THEN NoWorker ELSE buf_owner
    /\ UNCHANGED <<err_stops, after_err>>

\* A call of _on_realtime_update with `text`, by the recorder worker w reads.
HistCallback(w, text) ==
    LET gated == shutdown_flag \/ ~is_listening IN
    /\ UNCHANGED fixedVars
    /\ cb' = [called |-> TRUE, src |-> w, text |-> text,
              buf |-> last_typed_text, qlen |-> Len(queue), gated |-> gated,
              owner |-> buf_owner]
    /\ buf_owner' = IF last_typed_text' # last_typed_text THEN w
                    ELSE buf_owner
    /\ call' = NoMethod
    /\ UNCHANGED <<read_failed, err_stops, after_err>>

\* The utterance a worker step leaves: a new one when the step resets the
\* typed text tracker (line 314, line 353).
UttWorker(w) ==
    utt' = IF last_typed_text' = <<>> /\ pc[w] \in {"start", "read"}
           THEN NoUtt ELSE utt

\* The utterance after the hypothesis `text` reached the delta computation.
UttCallback(text) ==
    utt' = IF shutdown_flag \/ ~is_listening THEN utt
           ELSE [begun |-> TRUE,
                 ok |-> /\ utt.ok
                        /\ StartsWith(text, utt.last)
                        /\ (~utt.begun => last_typed_text = <<>>),
                 last |-> text,
                 cat |-> IF queue' # queue
                         THEN utt.cat \o queue'[Len(queue')].text
                         ELSE utt.cat]

\* ---------------------------------------------------------- specifications

\* The history of a step of worker w, the utterance history left alone.
WorkerHist(w) == HistWorker(w) /\ utt' = utt /\ call' = NoMethod

\* The same, the utterance history kept.
WorkerUtt(w) == HistWorker(w) /\ UttWorker(w) /\ call' = NoMethod

\* The same for the return of recorder.text() with `text`, which is recorded
\* in phrase-by-phrase mode (line 358).
WorkerRead(w, text) ==
    /\ HistWorker(w)
    /\ UttWorker(w)
    /\ call' = IF word_by_word THEN NoMethod
               ELSE [name |-> "text", was |-> is_listening, arg |-> text,
                     qlen |-> Len(queue)]


\* The daemon as VoiceDaemon.__init__ leaves it.
Constructed ==
    /\ is_listening = FALSE
    /\ shutdown_flag = FALSE
    /\ recorder = NoWorker
    /\ listen_thread = NoWorker
    /\ last_typed_text = <<>>
    /\ tray = TrayIdle
    /\ toggle_file = FALSE
    /\ pid_file = "self"
    /\ phase = "running"
    /\ exit_code = 0

NoThreads ==
    /\ pc = [w \in Workers |-> "idle"]
    /\ reading = [w \in Workers |-> NoWorker]
    /\ rec = [w \in Workers |-> "none"]
    /\ ctl = "ready"
    /\ queue = <<>>
    /\ queued_toggles = 0
    /\ typed = NoRun

NoHistory ==
    /\ cb = NoCall
    /\ utt = NoUtt
    /\ read_failed = {}
    /\ err_stops = [w \in Workers |-> 0]
    /\ after_err = FALSE
    /\ buf_owner = NoWorker
    /\ call = NoMethod

\* The running daemon, Idle, with the injector some environment selects.
Init ==
    /\ Constructed
    /\ NoThreads
    /\ NoHistory
    /\ word_by_word \in BOOLEAN
    /\ text_injector \in Injectors
    /\ env = CHOOSE e \in Envs : DetectTextInjector(e) = text_injector
    /\ tray_available = TRUE
    /\ pid0 = "absent"
    /\ dictate = DictateOff
    /\ peer = "none"

ControlStep ==
    \/ TrayClick /\ HistPlain
    \/ CheckToggleFile /\ HistPlain
    \/ RunQueuedToggle /\ HistPlain
    \/ StopRecorder /\ HistPlain
    \/ DeliverSignal /\ HistDeliver

EnvironmentStep ==
    \/ ToggleSignalHandler /\ HistPlain
    \/ TouchToggleFile /\ HistPlain

WorkerThreadStep ==
    \/ \E w \in Workers : WorkerStart(w) /\ WorkerHist(w)
    \/ \E w \in Workers : WorkerConstruct(w) /\ WorkerHist(w)
    \/ \E w \in Workers : WorkerLoop(w) /\ WorkerHist(w)
    \/ \E w \in Workers : \E text \in Utterances :
          WorkerReadReturn(w, text) /\ WorkerHist(w)
    \/ \E w \in Workers : WorkerReadRaise(w) /\ WorkerHist(w)
    \/ \E w \in Workers : WorkerExceptInner(w) /\ WorkerHist(w)
    \/ \E w \in Workers : WorkerExceptOuter(w) /\ WorkerHist(w)
    \/ \E w \in Workers : WorkerFinallyRecorder(w) /\ WorkerHist(w)
    \/ \E w \in Workers : WorkerFinallyStatus(w) /\ WorkerHist(w)
    \/ \E w \in Workers : \E text \in Utterances :
          OnRealtimeUpdate(w, text) /\ HistCallback(w, text) /\ utt' = utt

Next ==
    \/ ControlStep
    \/ EnvironmentStep
    \/ WorkerThreadStep

Spec == Init /\ [][Next]_vars

\* The running daemon with start_listening, stop_listening and
\* toggle_listening called in any order and in either state, between the
\* steps of the worker threads and the deliveries of their signals.
CallStep ==
    \/ CallStart /\ HistCall("start")
    \/ CallStop /\ HistCall("stop")
    \/ CallToggle /\ HistCall("toggle")
    \/ StopRecorder /\ HistSameCall
    \/ DeliverSignal /\ HistDeliver

NextCalls ==
    \/ CallStep
    \/ WorkerThreadStep

SpecCalls == Init /\ [][NextCalls]_vars

\* One Listening period: from start_listening to the exit of its worker,
\* stopped by the user or not, and never started again; the hypotheses range
\* over Strings.
InitPeriod ==
    /\ Constructed
    /\ NoThreads
    /\ NoHistory
    /\ word_by_word \in BOOLEAN
    /\ text_injector \in {None, "xdotool"}
    /\ env = CHOOSE e \in Envs : DetectTextInjector(e) = text_injector
    /\ tray_available = TRUE
    /\ pid0 = "absent"
    /\ dictate = DictateOff
    /\ peer = "none"

PeriodStart == TrayClick /\ ~is_listening /\ listen_thread = NoWorker /\ HistPlain

PeriodStop == TrayClick /\ is_listening /\ HistPlain

PeriodWorker ==
    \/ WorkerStart(1) /\ WorkerUtt(1)
    \/ WorkerConstruct(1) /\ WorkerUtt(1)
    \/ WorkerLoop(1) /\ WorkerUtt(1)
    \/ \E text \in Strings : WorkerReadReturn(1, text) /\ WorkerRead(1, text)
    \/ WorkerReadRaise(1) /\ WorkerUtt(1)
    \/ WorkerExceptInner(1) /\ WorkerUtt(1)
    \/ WorkerExceptOuter(1) /\ WorkerUtt(1)
    \/ WorkerFinallyRecorder(1) /\ WorkerUtt(1)
    \/ WorkerFinallyStatus(1) /\ WorkerUtt(1)

PeriodCallback ==
    \E text \in Strings :
        OnRealtimeUpdate(1, text) /\ HistCallback(1, text) /\ UttCallback(text)

PeriodControl ==
    \/ DeliverSignal /\ HistDeliver
    \/ StopRecorder /\ HistPlain

NextPeriod ==
    \/ PeriodStart
    \/ PeriodStop
    \/ PeriodWorker
    \/ PeriodCallback
    \/ PeriodControl

SpecPeriod == InitPeriod /\ [][NextPeriod]_vars

\* Startup: main() and the constructor, for every PID file content and every
\* environment.
InitStartup ==
    /\ phase = "main"
    /\ pid_file \in PidContents
    /\ pid0 = pid_file
    /\ env \in Envs
    /\ tray_available \in BOOLEAN
    /\ toggle_file \in BOOLEAN
    /\ word_by_word \in BOOLEAN
    /\ exit_code = 0
    /\ is_listening = FALSE
    /\ shutdown_flag = FALSE
    /\ recorder = NoWorker
    /\ listen_thread = NoWorker
    /\ last_typed_text = <<>>
    /\ text_injector = None
    /\ tray = TrayIdle
    /\ NoThreads
    /\ NoHistory
    /\ dictate = DictateOff
    /\ peer = "none"

NextStartup ==
    \/ MainCheck /\ UNCHANGED <<histVars, dictate, peer>>
    \/ Construct /\ UNCHANGED <<histVars, dictate, peer>>

SpecStartup == InitStartup /\ [][NextStartup]_vars

\* Concurrent startup: two daemon processes started at the same time, each
\* running main() and then the constructor, in every interleaving.
InitRace ==
    /\ phase = "main"
    /\ peer = "main"
    /\ pid_file \in PidContents
    /\ pid0 = pid_file
    /\ env \in Envs
    /\ tray_available \in BOOLEAN
    /\ toggle_file \in BOOLEAN
    /\ word_by_word \in BOOLEAN
    /\ exit_code = 0
    /\ is_listening = FALSE
    /\ shutdown_flag = FALSE
    /\ recorder = NoWorker
    /\ listen_thread = NoWorker
    /\ last_typed_text = <<>>
    /\ text_injector = None
    /\ tray = TrayIdle
    /\ NoThreads
    /\ NoHistory
    /\ dictate = DictateOff

NextRace ==
    \/ MainCheck /\ UNCHANGED <<histVars, dictate, peer>>
    \/ Construct /\ UNCHANGED <<histVars, dictate, peer>>
    \/ PeerMainCheck /\ UNCHANGED <<histVars, dictate>>
    \/ PeerConstruct /\ UNCHANGED <<histVars, dictate>>

SpecRace == InitRace /\ [][NextRace]_vars

\* The two programs, each from its start to its exit.  The daemon runs from
\* its constructor, toggled by the marker file, until quit; the one-shot
\* program runs in each of its modes.
DaemonEnv ==
    [session |-> "x11", xdotool |-> TRUE, ydotool |-> FALSE,
     ydotoold |-> FALSE, wtype |-> FALSE]

InitDaemon ==
    /\ phase = "init"
    /\ pid_file = "absent"
    /\ pid0 = "absent"
    /\ env = DaemonEnv
    /\ tray_available \in BOOLEAN
    /\ toggle_file \in BOOLEAN
    /\ word_by_word \in BOOLEAN
    /\ exit_code = 0
    /\ is_listening = FALSE
    /\ shutdown_flag = FALSE
    /\ recorder = NoWorker
    /\ listen_thread = NoWorker
    /\ last_typed_text = <<>>
    /\ text_injector = None
    /\ tray = TrayIdle
    /\ NoThreads
    /\ NoHistory
    /\ dictate = DictateOff
    /\ peer = "none"

InitDictate ==
    /\ phase = "off"
    /\ pid_file = "absent"
    /\ pid0 = "absent"
    /\ env = DaemonEnv
    /\ tray_available = TRUE
    /\ toggle_file = FALSE
    /\ word_by_word = TRUE
    /\ exit_code = 0
    /\ is_listening = FALSE
    /\ shutdown_flag = FALSE
    /\ recorder = NoWorker
    /\ listen_thread = NoWorker
    /\ last_typed_text = <<>>
    /\ text_injector = None
    /\ tray = TrayIdle
    /\ NoThreads
    /\ NoHistory
    /\ \E m \in Modes : dictate = [DictateOff EXCEPT !.pc = "import", !.mode = m]
    /\ peer = "none"

InitPrograms == InitDaemon \/ InitDictate

Running == phase = "running"

DaemonControl ==
    \/ Construct /\ UNCHANGED <<histVars, dictate, peer>>
    \/ StartupInterrupt /\ UNCHANGED <<histVars, dictate, peer>>
    \/ Running /\ TouchToggleFile /\ HistPlain
    \/ Running /\ CheckToggleFile /\ HistPlain
    \/ Running /\ StopRecorder /\ HistPlain
    \/ Running /\ DeliverSignal /\ HistDeliver
    \/ Quit /\ HistQuit
    \/ QuitStopRecorder /\ HistQuit
    \/ QuitCleanup /\ HistQuit

DaemonWorker ==
    \/ \E w \in Workers : Running /\ WorkerStart(w) /\ WorkerHist(w)
    \/ \E w \in Workers : Running /\ WorkerConstruct(w) /\ WorkerHist(w)
    \/ \E w \in Workers : Running /\ WorkerLoop(w) /\ WorkerHist(w)
    \/ \E w \in Workers : \E text \in Utterances :
          Running /\ WorkerReadReturn(w, text) /\ WorkerHist(w)
    \/ \E w \in Workers : Running /\ WorkerReadRaise(w) /\ WorkerHist(w)
    \/ \E w \in Workers : Running /\ WorkerExceptInner(w) /\ WorkerHist(w)
    \/ \E w \in Workers : Running /\ WorkerExceptOuter(w) /\ WorkerHist(w)
    \/ \E w \in Workers : Running /\ WorkerFinallyRecorder(w) /\ WorkerHist(w)
    \/ \E w \in Workers : Running /\ WorkerFinallyStatus(w) /\ WorkerHist(w)
    \/ \E w \in Workers : \E text \in Utterances :
          Running /\ OnRealtimeUpdate(w, text) /\ HistCallback(w, text)
                  /\ utt' = utt

DictateStep ==
    \/ DictateSigint
    \/ DictateImport
    \/ DictateInit
    \/ \E text \in Utterances : DictateTestReturn(text)
    \/ DictateTestRaise
    \/ DictateListen
    \/ DictateReadReturn
    \/ DictateReadRaise
    \/ DictateCleanup

NextPrograms ==
    \/ DaemonControl
    \/ DaemonWorker
    \/ DictateStep

SpecPrograms == InitPrograms /\ [][NextPrograms]_vars


\* -------------------------------------------------------------------- claims

\* C1: in every reachable state at most one worker thread running
\* _listen_loop is alive; start_listening never spawns a worker while an
\* earlier one has not exited.
C1_AtMostOneWorker == Cardinality({w \in Workers : Alive(w)}) <= 1

\* The workers a step spawns.
SpawnedNow == {w \in Workers : pc[w] = "idle" /\ pc'[w] # "idle"}

\* C2: every Idle-to-Listening edge of the Listening State spawns exactly one
\* worker thread, whatever toggle triggers are pending, and no worker is
\* spawned by a step that is not such an edge.
C2_OneWorkerPerEdge ==
    [][IF ~is_listening /\ is_listening'
       THEN Cardinality(SpawnedNow) = 1
       ELSE SpawnedNow = {}]_vars

\* A Listening period has just started, its worker is spawned, and both a
\* SIGUSR1 toggle and a marker file are still pending.
C2_Witness ==
    /\ is_listening
    /\ listen_thread # NoWorker
    /\ Cardinality({w \in Workers : pc[w] = "start"}) = 1
    /\ toggle_file
    /\ queued_toggles > 0

\* C3: a toggle trigger that arrives while a transition is pending is
\* dropped, not queued: while a toggle is queued, a SIGUSR1 queues no further
\* toggle and consuming the marker file makes no transition.
C3_PendingTriggerDropped ==
    [][queued_toggles > 0 =>
        /\ queued_toggles' <= queued_toggles
        /\ (toggle_file /\ ~toggle_file' => is_listening' = is_listening)]_vars

\* C4: when a read of the period's worker raises, the Listening State goes to
\* Idle at most once for that error, and after that transition _type_text is
\* not called until a new Listening period starts.
C4_ErrorStopsOnce ==
    /\ \A w \in Workers : err_stops[w] <= 1
    /\ after_err => ~typed.called

\* C5: for hypotheses of one utterance that each extend the previous one,
\* from an empty buffer, the concatenation of the emitted deltas equals the
\* last hypothesis.
C5_DeltaRoundTrip == (utt.begun /\ utt.ok) => utt.cat = utt.last

\* The text without its whitespace.
NonSpace(text) == SelectSeq(text, LAMBDA c : c # " ")

\* C6: a hypothesis that does not start with the buffer emits nothing and
\* leaves the buffer as it was, and nothing is emitted twice: the deltas of
\* the utterance hold exactly the buffer's non-whitespace text.
C6_RevisingUpdateSkipped ==
    /\ (cb.called /\ ~StartsWith(cb.text, cb.buf)) =>
          /\ last_typed_text = cb.buf
          /\ Len(queue) = cb.qlen
    /\ NonSpace(utt.cat) = NonSpace(last_typed_text)

\* A revising hypothesis has just been received, after text was emitted.
C6_Witness ==
    /\ cb.called
    /\ ~cb.gated
    /\ cb.buf # <<>>
    /\ ~StartsWith(cb.text, cb.buf)
    /\ NonSpace(cb.text) # <<>>
    /\ utt.cat # <<>>

\* C7: with a PID file naming a live process, startup exits with code 1 and
\* leaves the file as it was; with a PID file naming a dead process, the
\* file is removed and startup goes on to construct the daemon.
C7_SingleInstanceCheck ==
    /\ (pid0 \in {"live", "foreign"} /\ phase # "main") =>
          /\ phase = "exited"
          /\ exit_code = 1
          /\ pid_file = pid0
    /\ (pid0 = "dead" /\ phase # "main") =>
          /\ pid_file \in {"absent", "self"}
          /\ \/ phase \in {"init", "running"}
             \/ phase = "exited" /\ ~tray_available

\* Startup found a live daemon and has exited.
C7_Witness ==
    /\ pid0 = "live"
    /\ phase = "exited"
    /\ exit_code = 1
    /\ pid_file = "live"

\* C8: without an injector every _type_text call runs no tool and changes
\* neither the Listening State nor the control thread's position.
C8_NoInjectorNoOp ==
    [][(typed'.called /\ text_injector = None) =>
        /\ typed'.tool = None
        /\ is_listening' = is_listening
        /\ tray' = tray
        /\ ctl' = ctl]_vars

\* _type_text has just been called with a text and there is no injector.
C8_Witness ==
    /\ text_injector = None
    /\ typed.called
    /\ typed.text # <<>>

\* The candidates of a session type in the claimed priority order; ydotool
\* with `daemon` counts only when ydotoold runs.
Candidates(session) ==
    IF session = "wayland"
    THEN << [tool |-> "ydotool", daemon |-> TRUE],
            [tool |-> "wtype", daemon |-> FALSE],
            [tool |-> "xdotool", daemon |-> FALSE],
            [tool |-> "ydotool", daemon |-> FALSE] >>
    ELSE << [tool |-> "xdotool", daemon |-> FALSE],
            [tool |-> "ydotool", daemon |-> FALSE] >>

CandidateAvailable(c, e) == e[c.tool] /\ (c.daemon => e.ydotoold)

RECURSIVE FirstAvailable(_, _)
FirstAvailable(cs, e) ==
    IF cs = <<>> THEN None
    ELSE IF CandidateAvailable(Head(cs), e) THEN Head(cs).tool
    ELSE FirstAvailable(Tail(cs), e)

\* C9: the injector selected is the first available candidate in the
\* session's priority order, and None exactly when no candidate is
\* available.
C9_FirstAvailableInjector ==
    phase = "running" =>
        /\ text_injector = FirstAvailable(Candidates(env.session), env)
        /\ (text_injector = None) <=>
              (\A i \in DOMAIN Candidates(env.session) :
                    ~CandidateAvailable(Candidates(env.session)[i], env))

\* On wayland with ydotool installed but no ydotoold, wtype was selected.
C9_Witness ==
    /\ phase = "running"
    /\ env.session = "wayland"
    /\ env.ydotool /\ ~env.ydotoold /\ env.wtype /\ env.xdotool
    /\ text_injector = "wtype"

\* A step of a worker thread: a spawned worker moves, or the recorder calls
\* back.
WorkerMoved == (\E w \in Workers : pc[w] # "idle" /\ pc'[w] # pc[w]) \/ cb'.called

\* C10: no step of a worker thread writes the Listening State, the tray or
\* any other control-thread state, nor calls _type_text; all it gives the
\* control thread is one more queued signal.
C10_WorkerNeverWritesState ==
    [][WorkerMoved =>
        /\ is_listening' = is_listening
        /\ tray' = tray
        /\ shutdown_flag' = shutdown_flag
        /\ ~typed'.called
        /\ \/ queue' = queue
           \/ /\ Len(queue') = Len(queue) + 1
              /\ SubSeq(queue', 1, Len(queue)) = queue]_vars

\* A worker's error is queued for the control thread and the Listening State
\* is still Listening.
C10_Witness ==
    /\ is_listening
    /\ \E i \in DOMAIN queue : queue[i].kind = "error_occurred"
    /\ \E w \in Workers : pc[w] = "fin_rec"

\* Worker w writes the Partial Transcript Buffer in this step: the reset at
\* line 314, the reset at line 353, or line 308 in the callback of its
\* recorder.
WritesBuffer(w) ==
    \/ pc[w] = "start" /\ pc'[w] = "construct"
    \/ word_by_word /\ pc[w] = "read" /\ pc'[w] = "loop"
    \/ cb'.called /\ cb'.src = w /\ last_typed_text' # last_typed_text

\* C11: during a Listening period the Partial Transcript Buffer is written
\* only from the worker side of that period: by the worker start_listening
\* spawned for it and by the callback of that worker's recorder, never by a
\* worker of an earlier period.
C11_BufferSingleWriter ==
    [][\A w \in Workers :
          (is_listening /\ WritesBuffer(w)) => listen_thread = w]_vars

\* C12: when the daemon has quit, the state is Idle, no worker thread is
\* still running, and the recorder is None with no recorder left open.
C12_QuitTerminalState ==
    (phase = "exited" /\ ctl = "quit_done") =>
        /\ ~is_listening
        /\ \A w \in Workers : ~Alive(w)
        /\ recorder = NoWorker
        /\ \A w \in Workers : rec[w] # "live"

\* The event loop delivers an error_occurred signal in this step.
ErrorDelivered ==
    /\ queue # <<>>
    /\ Head(queue).kind = "error_occurred"
    /\ queue' = Tail(queue)

\* C13: the delivery of a worker's error leaves the state Idle and shows the
\* error to the user, and no Listening period is started by the delivery of
\* a signal or by a worker step: only a toggle trigger starts one.
C13_ErrorStopsNoRestart ==
    [][/\ ErrorDelivered => (~is_listening' /\ typed'.notice = "error")
       /\ (~is_listening /\ is_listening') =>
             (queue' = queue /\ ~WorkerMoved)]_vars

\* The error of the period's worker has just been shown and the state is
\* Idle.
C13_Witness ==
    /\ typed.notice = "error"
    /\ after_err
    /\ ~is_listening
    /\ tray = TrayIdle

\* C14: after a read of the transcription source has raised, neither the
\* daemon's worker nor the one-shot program begins another read: the worker
\* goes from its except clause to its finally block, and the one-shot
\* program never calls recorder.text() again.
C14_NothingRetried ==
    [][/\ \A w \in Workers :
             pc[w] \in {"except_inner", "except_outer"} =>
                pc'[w] \in {pc[w], "fin_rec"}
       /\ dictate.raised => ~(dictate.pc # "read" /\ dictate'.pc = "read")]_vars

\* The Listening period worker w was spawned for has been stopped.
PeriodOver(w) == pc[w] # "idle" /\ ~(is_listening /\ listen_thread = w)

\* C15: once stop_listening has ended its period, a worker that reaches the
\* loop condition between two utterances leaves the loop for its finally
\* block, whatever toggles followed the stop.
C15_StoppedWorkerExits ==
    [][\A w \in Workers :
          (PeriodOver(w) /\ pc[w] = "loop" /\ pc'[w] # "loop") =>
             pc'[w] = "fin_rec"]_vars

\* C16: with the marker file as the only toggle channel, the poll that sees
\* the file deletes it and makes exactly one transition, every transition a
\* toggle makes consumes one occurrence of the file, and the constructor
\* deletes a file left from before without toggling.
C16_MarkerConsumedOnce ==
    [][/\ (phase = "running" /\ ctl = "ready" /\ toggle_file /\ ~toggle_file')
             => is_listening' # is_listening
       /\ (ctl = "ready" /\ ctl' # "quit_rec" /\ queue' = queue
             /\ is_listening' # is_listening)
             => (toggle_file /\ ~toggle_file')
       /\ (phase = "init" /\ phase' = "running")
             => (~toggle_file' /\ ~is_listening')]_vars

\* The marker file has been consumed three times: the second Listening
\* period is running and no file is left.
C16_Witness ==
    /\ phase = "running"
    /\ is_listening
    /\ listen_thread = 2
    /\ ~toggle_file
    /\ ctl = "ready"

\* The event loop delivers a text_ready signal in this step.
TextDelivered ==
    /\ queue # <<>>
    /\ Head(queue).kind = "text_ready"
    /\ queue' = Tail(queue)

\* C17: a _type_text call whose tool fails changes neither the Listening
\* State, the tray, the control thread's position nor any worker or
\* recorder, and every text_ready delivered, after a failure as before it,
\* is handed to _type_text and to the injector.
C17_InjectionErrorDropped ==
    [][/\ (typed'.called /\ ~typed'.ok) =>
             /\ is_listening' = is_listening
             /\ shutdown_flag' = shutdown_flag
             /\ tray' = tray
             /\ ctl' = ctl
             /\ pc' = pc
             /\ recorder' = recorder
             /\ rec' = rec
             /\ phase' = phase
       /\ TextDelivered =>
             /\ typed'.called
             /\ typed'.text = Head(queue).text
             /\ typed'.tool = text_injector]_vars

\* The typing tool has just failed while Listening, and the next delta is
\* already queued.
C17_Witness ==
    /\ typed.called
    /\ ~typed.ok
    /\ typed.tool # None
    /\ is_listening
    /\ queue # <<>>
    /\ Head(queue).kind = "text_ready"

\* C18: whenever the control thread has completed an operation, the tray
\* shows the active glyph, 'Voice Dictation - LISTENING' and 'Stop
\* Listening' exactly when the state is Listening, and the idle glyph,
\* 'Voice Dictation - Idle' and 'Start Listening' exactly when it is Idle.
C18_TrayMatchesState ==
    ctl = "ready" =>
        /\ is_listening <=> tray = TrayListening
        /\ ~is_listening <=> tray = TrayIdle

\* Listening was started, then stopped by the error handler, and the
\* control thread has completed stop_listening.
C18_Witness ==
    /\ ctl = "ready"
    /\ after_err
    /\ ~is_listening
    /\ listen_thread # NoWorker
    /\ tray = TrayIdle

\* C19: an interrupt always ends the process with exit code 0.  The
\* one-shot program exits with 0 once SIGINT has reached its handler, and
\* with 1 only for a missing dependency, a failed recorder initialization or
\* a failed self-test; the daemon, ended by SIGINT or SIGTERM, exits with 0.
C19_InterruptCleanExit ==
    /\ (dictate.pc = "exited" /\ dictate.shutdown_requested) =>
          dictate.exit_code = 0
    /\ (dictate.pc = "exited" /\ dictate.exit_code # 0) =>
          /\ dictate.exit_code = 1
          /\ dictate.cause \in {"dependency", "init", "selftest"}
    /\ (phase = "exited" /\ ctl \in {"quit_done", "killed"}) => exit_code = 0

\* k whitespace characters.
Spaces(k) == [i \in 1..k |-> " "]

\* d is what is left of `text` beyond `buf` once the leading whitespace is
\* removed.
IsTrimmedSuffix(d, text, buf) ==
    /\ d = <<>> \/ d[1] # " "
    /\ \E k \in 0..Len(text) : text = buf \o Spaces(k) \o d

\* C20: a hypothesis that starts with the buffer emits its trimmed suffix
\* beyond the buffer and stores the hypothesis in the buffer when that
\* suffix is not empty, and emits nothing and leaves the buffer when it is
\* empty; a call made when not listening or with the stop flag set emits
\* nothing and leaves the buffer.
C20_DeltaComputation ==
    cb.called =>
        IF cb.gated
        THEN Len(queue) = cb.qlen /\ last_typed_text = cb.buf
        ELSE StartsWith(cb.text, cb.buf) =>
                \E d \in Strings :
                    /\ IsTrimmedSuffix(d, cb.text, cb.buf)
                    /\ IF d # <<>>
                       THEN /\ Len(queue) = cb.qlen + 1
                            /\ queue[Len(queue)].kind = "text_ready"
                            /\ queue[Len(queue)].text = d
                            /\ last_typed_text = cb.text
                       ELSE /\ Len(queue) = cb.qlen
                            /\ last_typed_text = cb.buf

\* The hypothesis "a a" has just arrived with the buffer "a": the delta "a"
\* was emitted without its leading whitespace.
C20_Witness ==
    /\ cb.called
    /\ ~cb.gated
    /\ cb.buf = <<"a">>
    /\ cb.text = <<"a", " ", "a">>
    /\ last_typed_text = cb.text
    /\ queue # <<>>
    /\ queue[Len(queue)].text = <<"a">>

\* C21: every delta is computed against a buffer that is empty or holds
\* only earlier hypotheses of the same worker's current utterance: the
\* buffer was reset at the start of the period and of the utterance, and
\* holds no text left by the callback of another period's worker.
C21_FreshBuffer ==
    (cb.called /\ ~cb.gated /\ cb.buf # <<>>) => cb.owner = cb.src

\* C22: whenever the state is Idle, stop_listening has completed and no
\* worker thread is running, the stop flag is set once a period has run, the
\* recorder is None and no recorder a worker created is still open.
C22_StopReleasesRecorder ==
    (~is_listening /\ ctl = "ready" /\ \A w \in Workers : ~Alive(w)) =>
        /\ listen_thread # NoWorker => shutdown_flag
        /\ recorder = NoWorker
        /\ \A w \in Workers : rec[w] # "live"

\* d is `text` without its leading and trailing whitespace.
IsTrimmed(d, text) ==
    /\ d = <<>> \/ (d[1] # " " /\ d[Len(d)] # " ")
    /\ \E j, k \in 0..Len(text) : text = Spaces(j) \o d \o Spaces(k)

\* Within one Listening period: in phrase-by-phrase mode a result returned
\* with the stop flag set forwards nothing; otherwise a result that is empty
\* once trimmed forwards nothing, and any other result forwards exactly one
\* text_ready holding the trimmed result.
PhraseForwarding ==
    call.name = "text" =>
        \E d \in Strings :
            /\ IsTrimmed(d, call.arg)
            /\ IF shutdown_flag \/ d = <<>>
               THEN Len(queue) = call.qlen
               ELSE /\ Len(queue) = call.qlen + 1
                    /\ queue[Len(queue)].kind = "text_ready"
                    /\ queue[Len(queue)].text = d

\* C23: in phrase-by-phrase mode a result that recorder.text() returns to a
\* worker whose Listening period was stopped (a later worker has been started
\* since) is discarded: the step forwards nothing.
C23_DiscardAfterStop ==
    [][\A w \in Workers :
          (~word_by_word /\ pc[w] = "read" /\ pc'[w] # "read"
              /\ listen_thread # w)
          => queue' = queue]_vars

\* C24: of two daemon processes started at the same time, at most one passes
\* the PID-file check and runs as daemon.
C24_AtMostOneDaemon ==
    ~(phase = "running" /\ peer = "running")

\* C25: when a worker of an earlier Listening period runs the recorder part
\* of its cleanup after a later worker has been started, it neither shuts
\* down nor clears a recorder that another worker created.
C25_OwnRecorderOnly ==
    [][\A w \in Workers :
          (pc[w] = "fin_rec" /\ pc'[w] = "fin_status" /\ listen_thread # w)
          => /\ \A r \in Workers \ {w} : rec'[r] = rec[r]
             /\ recorder # w => recorder' = recorder]_vars

\* C26: the delivery of an error_occurred or status_changed(False) signal
\* that a worker of an earlier Listening period emitted, while a later
\* period is Listening, leaves the daemon Listening.
C26_StaleSignalIgnored ==
    [][(/\ queue # <<>>
        /\ queue' = Tail(queue)
        /\ Head(queue).kind \in {"error_occurred", "status_changed"}
        /\ Head(queue).src # listen_thread
        /\ is_listening)
       => is_listening']_vars

\* C27: text is handed to the typing tool only while the daemon is
\* Listening: no delivery of a text_ready types anything once stop_listening
\* has made the state Idle.
C27_NoTypingWhileIdle ==
    [][(typed'.called /\ typed'.tool # None) => is_listening]_vars

\* The control thread calls the method `name` in this step.
Calls(name) == ctl = "ready" /\ call'.name = name

\* What start_listening and stop_listening write.
listeningVars ==
    <<is_listening, shutdown_flag, tray, listen_thread, pc, ctl, recorder,
      rec, reading, last_typed_text, queue>>

\* C28: start_listening called while Listening and stop_listening called
\* while Idle change nothing: no worker is spawned, nothing is notified, the
\* recorder is untouched.  toggle_listening always flips the Listening State,
\* and a second toggle with no worker event in between returns it to the
\* value the first one found.
C28_GuardedAndInvolutive ==
    [][/\ ((Calls("start") /\ is_listening) \/ (Calls("stop") /\ ~is_listening))
            => /\ UNCHANGED listeningVars
               /\ typed'.notice = None
       /\ Calls("toggle") => is_listening' = ~is_listening
       /\ (Calls("toggle") /\ call.name = "toggle")
            => is_listening' = call.was]_vars

\* start_listening has just been called while Listening, with the worker of
\* the period in its loop: still Listening, still one worker.
C28_Witness ==
    /\ call.name = "start"
    /\ call.was
    /\ is_listening
    /\ Cardinality({w \in Workers : Alive(w)}) = 1
    /\ \E w \in Workers : pc[w] = "read"

====
